---------------------------- MODULE Spec2Model ----------------------------
(***************************************************************************)
(* Model of the Jinja-style template utilities (renderTemplate,            *)
(* escapeTemplate, hasTemplateSyntax).                                     *)
(*                                                                         *)
(* A JavaScript string is a sequence of one-character strings.  A          *)
(* JavaScript value is a record with a type tag t and one payload field    *)
(* per type, so that values of different types can be compared.  The       *)
(* regular expressions of the source are kept as patterns and run by a     *)
(* backtracking matcher with the priorities of the ECMAScript matcher      *)
(* (leftmost start, greedy or lazy quantifiers, first alternative first).  *)
(***************************************************************************)
EXTENDS Integers, Sequences, FiniteSets, TLC

VARIABLES
    template,   \* the string handed to the operation
    context,    \* the context object handed to renderTemplate
    result,     \* renderTemplate's local `result`; the returned value at the end
    found,      \* what hasTemplateSyntax returned
    pc          \* the position in the operation that is running

vars == <<template, context, result, found, pc>>

-----------------------------------------------------------------------------
(* Characters and character classes                                        *)

LowerLetters == <<"a","b","c","d","e","f","g","h","i","j","k","l","m",
                  "n","o","p","q","r","s","t","u","v","w","x","y","z">>

UpperLetters == <<"A","B","C","D","E","F","G","H","I","J","K","L","M",
                  "N","O","P","Q","R","S","T","U","V","W","X","Y","Z">>

Digits == <<"0","1","2","3","4","5","6","7","8","9">>

Range(q) == {q[j] : j \in DOMAIN q}

\* \w of the regular expressions: [A-Za-z0-9_]
WordChars == Range(LowerLetters) \cup Range(UpperLetters) \cup Range(Digits) \cup {"_"}

\* \s of the regular expressions (the white space the model writes)
SpaceChars == {" ", "\t", "\n", "\r", "\f"}

\* the line terminators that `.` does not match without the s flag
LineTerminators == {"\n", "\r"}

\* a character class: the characters of set, or with neg all the others
Class(neg, set) == [neg |-> neg, set |-> set]

InClass(c, cls) == (c \in cls.set) # cls.neg

-----------------------------------------------------------------------------
(* Regular expressions: a pattern is a sequence of nodes                   *)

\* A pattern is a flat sequence of nodes; the nodes of a sub-pattern follow
\* the node that governs them.

\* a literal run of characters
Word(w)          == <<[op |-> "word", w |-> w]>>
Lit(c)           == Word(<<c>>)
\* one character of a class
Chr(cls)         == <<[op |-> "chr", cls |-> cls]>>
\* cls*, cls+ (min 1) and the lazy cls*?
Star(cls)        == <<[op |-> "rep", cls |-> cls, min |-> 0, lazy |-> FALSE]>>
Plus(cls)        == <<[op |-> "rep", cls |-> cls, min |-> 1, lazy |-> FALSE]>>
LazyStar(cls)    == <<[op |-> "rep", cls |-> cls, min |-> 0, lazy |-> TRUE]>>
\* the start (odd n) or the end (even n) of a capture group
Save(n)          == <<[op |-> "save", n |-> n]>>
\* (sub) as capture group n
Group(n, sub)    == Save(2 * n - 1) \o sub \o Save(2 * n)
\* (?:sub)?: try the n nodes of sub, or skip them
Opt(sub)         == <<[op |-> "opt", n |-> Len(sub)]>> \o sub
\* left|right: try left and jump over right, or skip left
Alt(left, right) ==
    <<[op |-> "opt", n |-> Len(left) + 1]>> \o left
    \o <<[op |-> "jump", n |-> Len(right)]>> \o right

AnyDotAll   == Class(TRUE, {})
AnyNoBreak  == Class(TRUE, LineTerminators)
WhiteSpace  == Class(FALSE, SpaceChars)
WordClass   == Class(FALSE, WordChars)
PathClass   == Class(FALSE, WordChars \cup {"."})
QuoteClass  == Class(FALSE, {"\"", "'"})
NotQuote    == Class(TRUE, {"\"", "'"})
NotParen    == Class(TRUE, {")"})

NoMatch == [ok |-> FALSE, start |-> 0, end |-> 0, caps |-> <<>>]

\* the first position from i on whose character is not in cls (Len(s) + 1
\* when the class runs to the end of s)
RunEnd(s, i, cls) ==
    CHOOSE p \in i..(Len(s) + 1) :
        /\ p = Len(s) + 1 \/ ~InClass(s[p], cls)
        /\ \A q \in i..(p - 1) : InClass(s[q], cls)

\* a test that every match of re from node k on at position i passes (the
\* literal or the class the pattern starts with is there): an attempt that
\* fails it is not run
RECURSIVE Viable(_, _, _, _)
Viable(re, k, s, i) ==
    IF k > Len(re) THEN TRUE
    ELSE CASE re[k].op = "word" ->
                /\ i + Len(re[k].w) - 1 <= Len(s)
                /\ \A j \in DOMAIN re[k].w : s[i + j - 1] = re[k].w[j]
           [] re[k].op = "chr"  -> i <= Len(s) /\ InClass(s[i], re[k].cls)
           [] re[k].op = "rep"  ->
                \/ i <= Len(s) /\ InClass(s[i], re[k].cls)
                \/ re[k].min = 0 /\ Viable(re, k + 1, s, i)
           [] re[k].op = "save" -> Viable(re, k + 1, s, i)
           [] re[k].op = "opt"  ->
                Viable(re, k + 1, s, i) \/ Viable(re, k + 1 + re[k].n, s, i)
           [] re[k].op = "jump" -> Viable(re, k + 1 + re[k].n, s, i)

\* the first viable position of lo..hi (hi + 1 when there is none)
FirstViable(re, k, s, lo, hi) ==
    CHOOSE p \in lo..(hi + 1) :
        /\ p = hi + 1 \/ Viable(re, k, s, p)
        /\ \A q \in lo..(p - 1) : ~Viable(re, k, s, q)

\* the last viable position of lo..hi (lo - 1 when there is none)
LastViable(re, k, s, lo, hi) ==
    CHOOSE p \in (lo - 1)..hi :
        /\ p = lo - 1 \/ Viable(re, k, s, p)
        /\ \A q \in (p + 1)..hi : ~Viable(re, k, s, q)

\* the backtracking matcher: pattern re from node k on, subject s from
\* position i on, caps the capture positions so far (0: not set)
RECURSIVE RunFrom(_, _, _, _, _)

\* the first alternative when it matched, else the pattern from node k on
OrElse(first, re, k, s, i, caps) ==
    IF first.ok THEN first ELSE RunFrom(re, k, s, i, caps)

RECURSIVE Repeat(_, _, _, _, _, _)

\* the rest of the pattern matched from p (r), or the remaining repetition
\* counts lo..hi are tried
KeepOrRetry(r, re, k, s, lo, hi, caps) ==
    IF r.ok THEN r ELSE Repeat(re, k, s, lo, hi, caps)

\* the lazy quantifier at node k tries the rest of the pattern from p, the
\* first position of lo..hi it can start at, and then from the later ones
TryFirst(re, k, s, p, hi, caps) ==
    IF p > hi THEN NoMatch
    ELSE KeepOrRetry(RunFrom(re, k + 1, s, p, caps), re, k, s, p + 1, hi, caps)

\* the greedy quantifier at node k tries the rest of the pattern from p, the
\* last position of lo..hi it can start at, and then from the earlier ones
TryLast(re, k, s, lo, p, caps) ==
    IF p < lo THEN NoMatch
    ELSE KeepOrRetry(RunFrom(re, k + 1, s, p, caps), re, k, s, lo, p - 1, caps)

\* the quantifier at node k may stop at any position of lo..hi: the rest of
\* the pattern is tried from each in the order of the quantifier's priority
\* (lazy: fewest characters first, greedy: most first), the first match kept
Repeat(re, k, s, lo, hi, caps) ==
    IF re[k].lazy
    THEN TryFirst(re, k, s, FirstViable(re, k + 1, s, lo, hi), hi, caps)
    ELSE TryLast(re, k, s, lo, LastViable(re, k + 1, s, lo, hi), caps)

RunFrom(re, k, s, i, caps) ==
    IF k > Len(re)
    THEN [ok |-> TRUE, start |-> 0, end |-> i, caps |-> caps]
    ELSE CASE re[k].op = "word" ->
                IF i + Len(re[k].w) - 1 <= Len(s)
                   /\ \A j \in DOMAIN re[k].w : s[i + j - 1] = re[k].w[j]
                THEN RunFrom(re, k + 1, s, i + Len(re[k].w), caps)
                ELSE NoMatch
           [] re[k].op = "chr" ->
                IF i <= Len(s) /\ InClass(s[i], re[k].cls)
                THEN RunFrom(re, k + 1, s, i + 1, caps)
                ELSE NoMatch
           [] re[k].op = "rep" ->
                Repeat(re, k, s, i + re[k].min, RunEnd(s, i, re[k].cls), caps)
           [] re[k].op = "save" ->
                RunFrom(re, k + 1, s, i, [caps EXCEPT ![re[k].n] = i])
           [] re[k].op = "opt" ->
                OrElse(RunFrom(re, k + 1, s, i, caps), re, k + 1 + re[k].n, s, i, caps)
           [] re[k].op = "jump" ->
                RunFrom(re, k + 1 + re[k].n, s, i, caps)

RECURSIVE ExecFrom(_, _, _, _)

\* the match r found at start position p, or the search goes on after p
FoundOrOn(r, re, groups, s, p) ==
    IF r.ok THEN [r EXCEPT !.start = p] ELSE ExecFrom(re, groups, s, p + 1)

\* the match of re that starts at p, the first position the pattern can
\* start at, or at a later one
ExecAt(re, groups, s, p) ==
    IF p > Len(s) + 1 THEN NoMatch
    ELSE FoundOrOn(RunFrom(re, 1, s, p, [j \in 1..(2 * groups) |-> 0]),
                   re, groups, s, p)

\* RegExp exec with lastIndex from: the leftmost match of re in s that
\* starts at from or later; groups is the number of capture groups of re
ExecFrom(re, groups, s, from) ==
    IF from > Len(s) + 1 THEN NoMatch
    ELSE ExecAt(re, groups, s, FirstViable(re, 1, s, from, Len(s) + 1))

\* re.exec(s), s.match(re) without the g flag
Exec(re, groups, s) == ExecFrom(re, groups, s, 1)

RECURSIVE MatchesFrom(_, _, _, _)

\* the match m and the matches after it (an empty match advances by one)
MatchAndRest(m, re, groups, s) ==
    IF ~m.ok THEN <<>>
    ELSE <<m>> \o MatchesFrom(re, groups, s,
                              IF m.end = m.start THEN m.end + 1 ELSE m.end)

\* the successive matches of a g-flag pattern, as String.prototype.replace
\* finds them: each search starts where the last match ended
MatchesFrom(re, groups, s, from) ==
    MatchAndRest(ExecFrom(re, groups, s, from), re, groups, s)

MatchAll(re, groups, s) == MatchesFrom(re, groups, s, 1)

\* whether capture group n took part in match m
Captured(m, n) == m.caps[2 * n - 1] # 0 /\ m.caps[2 * n] # 0

\* the text of capture group n of match m in s (empty when it took no part)
Capture(s, m, n) ==
    IF Captured(m, n) THEN SubSeq(s, m.caps[2 * n - 1], m.caps[2 * n] - 1) ELSE <<>>

\* the whole matched text
Matched(s, m) == SubSeq(s, m.start, m.end - 1)

\* String.prototype.replace with a replacer function: s with match ms[j]
\* replaced by reps[j], the text between matches kept
RECURSIVE Splice(_, _, _, _, _)
Splice(s, ms, reps, j, from) ==
    IF j > Len(ms)
    THEN SubSeq(s, from, Len(s))
    ELSE SubSeq(s, from, ms[j].start - 1) \o reps[j]
            \o Splice(s, ms, reps, j + 1, ms[j].end)

-----------------------------------------------------------------------------
(* JavaScript values                                                       *)

Value(t, b, n, s, a, o) == [t |-> t, b |-> b, n |-> n, s |-> s, a |-> a, o |-> o]

Undefined == Value("undefined", FALSE, 0, <<>>, <<>>, <<>>)
Null      == Value("null", FALSE, 0, <<>>, <<>>, <<>>)
Bool(b)   == Value("boolean", b, 0, <<>>, <<>>, <<>>)
Num(n)    == Value("number", FALSE, n, <<>>, <<>>, <<>>)
Str(s)    == Value("string", FALSE, 0, s, <<>>, <<>>)
Arr(a)    == Value("array", FALSE, 0, <<>>, a, <<>>)
\* an object: o maps each own key (a string) to its value
Obj(o)    == Value("object", FALSE, 0, <<>>, <<>>, o)
\* the outcome of an expression that throws a TypeError instead of giving a value
TypeError == Value("TypeError", FALSE, 0, <<>>, <<>>, <<>>)
\* the outcome of a call that throws instead of returning a string
Thrown    == <<"TypeError">>

\* typeof v
TypeOf(v) == IF v.t \in {"null", "array", "object"} THEN "object" ELSE v.t

\* Boolean(v)
Truthy(v) ==
    CASE v.t = "boolean" -> v.b
      [] v.t = "number"  -> v.n # 0
      [] v.t = "string"  -> v.s # <<>>
      [] v.t \in {"array", "object"} -> TRUE
      [] OTHER -> FALSE

\* the decimal digits of a natural number
RECURSIVE NumToString(_)
NumToString(n) ==
    IF n < 10 THEN <<Digits[n + 1]>>
    ELSE NumToString(n \div 10) \o <<Digits[(n % 10) + 1]>>

\* the array index a canonical numeric key names, or -1
IndexOf(key) ==
    IF \E n \in 0..9 : key = <<Digits[n + 1]>>
    THEN CHOOSE n \in 0..9 : key = <<Digits[n + 1]>>
    ELSE -1

LengthKey == <<"l","e","n","g","t","h">>

\* `key in v` for an object or an array (own keys; the model's key
\* alphabet holds no name of Object.prototype or Array.prototype)
HasProperty(v, key) ==
    CASE v.t = "object" -> key \in DOMAIN v.o
      [] v.t = "array"  -> key = LengthKey
                           \/ (IndexOf(key) >= 0 /\ IndexOf(key) < Len(v.a))
      [] OTHER -> FALSE

\* v[key] for an object or an array
GetProperty(v, key) ==
    CASE v.t = "object" -> IF key \in DOMAIN v.o THEN v.o[key] ELSE Undefined
      [] v.t = "array"  -> IF key = LengthKey THEN Num(Len(v.a))
                           ELSE IF IndexOf(key) >= 0 /\ IndexOf(key) < Len(v.a)
                                THEN v.a[IndexOf(key) + 1]
                                ELSE Undefined
      [] OTHER -> Undefined

\* { ...context, [itemName]: item }
Extend(ctx, key, v) ==
    Obj([q \in DOMAIN ctx.o \cup {key} |-> IF q = key THEN v ELSE ctx.o[q]])

RECURSIVE JoinStrings(_, _)
JoinStrings(strs, sep) ==
    IF strs = <<>> THEN <<>>
    ELSE IF Len(strs) = 1 THEN strs[1]
    ELSE strs[1] \o sep \o JoinStrings(Tail(strs), sep)

\* String(v); an array is its elements joined by ",", null and undefined
\* elements giving the empty string
RECURSIVE StringOf(_)
StringOf(v) ==
    CASE v.t = "undefined" -> <<"u","n","d","e","f","i","n","e","d">>
      [] v.t = "null"      -> <<"n","u","l","l">>
      [] v.t = "boolean"   -> IF v.b THEN <<"t","r","u","e">> ELSE <<"f","a","l","s","e">>
      [] v.t = "number"    -> NumToString(v.n)
      [] v.t = "string"    -> v.s
      [] v.t = "array"     ->
            JoinStrings([j \in DOMAIN v.a |->
                            IF v.a[j].t \in {"undefined", "null"}
                            THEN <<>> ELSE StringOf(v.a[j])],
                        <<",">>)
      [] OTHER -> <<"[","o","b","j","e","c","t"," ","O","b","j","e","c","t","]">>

\* Array.prototype.join(separator)
ArrayJoin(v, sep) ==
    JoinStrings([j \in DOMAIN v.a |->
                    IF v.a[j].t \in {"undefined", "null"}
                    THEN <<>> ELSE StringOf(v.a[j])],
                sep)

-----------------------------------------------------------------------------
(* String methods                                                          *)

Position(q, c) == CHOOSE j \in DOMAIN q : q[j] = c

UpperChar(c) ==
    IF c \in Range(LowerLetters) THEN UpperLetters[Position(LowerLetters, c)] ELSE c

LowerChar(c) ==
    IF c \in Range(UpperLetters) THEN LowerLetters[Position(UpperLetters, c)] ELSE c

ToUpperCase(s) == [j \in DOMAIN s |-> UpperChar(s[j])]
ToLowerCase(s) == [j \in DOMAIN s |-> LowerChar(s[j])]

RECURSIVE TrimStart(_)
TrimStart(s) ==
    IF s # <<>> /\ s[1] \in SpaceChars THEN TrimStart(Tail(s)) ELSE s

RECURSIVE TrimEnd(_)
TrimEnd(s) ==
    IF s # <<>> /\ s[Len(s)] \in SpaceChars
    THEN TrimEnd(SubSeq(s, 1, Len(s) - 1)) ELSE s

Trim(s) == TrimEnd(TrimStart(s))

\* the first position of c in s, or 0
First(s, c) ==
    IF \E j \in DOMAIN s : s[j] = c
    THEN CHOOSE j \in DOMAIN s : s[j] = c /\ \A q \in 1..(j - 1) : s[q] # c
    ELSE 0

RECURSIVE Split(_, _)

\* s cut at p, a position of the separator c (0: c is not in s)
SplitAt(s, c, p) ==
    IF p = 0 THEN <<s>>
    ELSE <<SubSeq(s, 1, p - 1)>> \o Split(SubSeq(s, p + 1, Len(s)), c)

\* s.split(c) for a one-character separator: always at least one part
Split(s, c) == SplitAt(s, c, First(s, c))

StartsWith(s, prefix) ==
    Len(s) >= Len(prefix) /\ SubSeq(s, 1, Len(prefix)) = prefix

-----------------------------------------------------------------------------
(* The regular expressions of the source                                   *)

OpenTag   == <<"{", "%">>
CloseTag  == <<"%", "}">>
OpenVar   == <<"{", "{">>
CloseVar  == <<"}", "}">>

\* /{%\s*if\s+(.*?)\s*%}(.*?)(?:{%\s*else\s*%}(.*?))?{%\s*endif\s*%}/gs
conditionalRegex ==
    Word(OpenTag) \o Star(WhiteSpace) \o Word(<<"i","f">>) \o Plus(WhiteSpace)
    \o Group(1, LazyStar(AnyDotAll)) \o Star(WhiteSpace) \o Word(CloseTag)
    \o Group(2, LazyStar(AnyDotAll))
    \o Opt(Word(OpenTag) \o Star(WhiteSpace) \o Word(<<"e","l","s","e">>)
           \o Star(WhiteSpace) \o Word(CloseTag) \o Group(3, LazyStar(AnyDotAll)))
    \o Word(OpenTag) \o Star(WhiteSpace) \o Word(<<"e","n","d","i","f">>)
    \o Star(WhiteSpace) \o Word(CloseTag)

\* /{%\s*for\s+(\w+)\s+in\s+(\w+)\s*%}(.*?){%\s*endfor\s*%}/gs
forRegex ==
    Word(OpenTag) \o Star(WhiteSpace) \o Word(<<"f","o","r">>) \o Plus(WhiteSpace)
    \o Group(1, Plus(WordClass)) \o Plus(WhiteSpace) \o Word(<<"i","n">>)
    \o Plus(WhiteSpace) \o Group(2, Plus(WordClass)) \o Star(WhiteSpace)
    \o Word(CloseTag) \o Group(3, LazyStar(AnyDotAll))
    \o Word(OpenTag) \o Star(WhiteSpace) \o Word(<<"e","n","d","f","o","r">>)
    \o Star(WhiteSpace) \o Word(CloseTag)

\* /{{(\s*[\w.]+\s*)}}/g
variableRegex ==
    Word(OpenVar)
    \o Group(1, Star(WhiteSpace) \o Plus(PathClass) \o Star(WhiteSpace))
    \o Word(CloseVar)

\* /{{(\s*[\w.]+\s*\|\s*\w+(?:\([^)]*\))?)\s*}}/g
filterRegex ==
    Word(OpenVar)
    \o Group(1, Star(WhiteSpace) \o Plus(PathClass) \o Star(WhiteSpace) \o Lit("|")
                \o Star(WhiteSpace) \o Plus(WordClass)
                \o Opt(Lit("(") \o Star(NotParen) \o Lit(")")))
    \o Star(WhiteSpace) \o Word(CloseVar)

\* /(\w+)\s*==\s*["']([^"']+)["']/
eqRegex ==
    Group(1, Plus(WordClass)) \o Star(WhiteSpace) \o Word(<<"=","=">>)
    \o Star(WhiteSpace) \o Chr(QuoteClass) \o Group(2, Plus(NotQuote))
    \o Chr(QuoteClass)

\* /(\w+)\s*!=\s*["']([^"']+)["']/
neqRegex ==
    Group(1, Plus(WordClass)) \o Star(WhiteSpace) \o Word(<<"!","=">>)
    \o Star(WhiteSpace) \o Chr(QuoteClass) \o Group(2, Plus(NotQuote))
    \o Chr(QuoteClass)

\* /(\w+)(?:\(([^)]*)\))?/
filterCallRegex ==
    Group(1, Plus(WordClass)) \o Opt(Lit("(") \o Group(2, Star(NotParen)) \o Lit(")"))

\* /["']([^"']+)["']/
quotedRegex == Chr(QuoteClass) \o Group(1, Plus(NotQuote)) \o Chr(QuoteClass)

\* /["']/g
quoteRegex == Chr(QuoteClass)

\* /{{/g, /}}/g, /{%/g, /%}/g
openVarRegex  == Word(OpenVar)
closeVarRegex == Word(CloseVar)
openTagRegex  == Word(OpenTag)
closeTagRegex == Word(CloseTag)

\* /{{.*?}}|{%.*?%}/
syntaxRegex ==
    Alt(Word(OpenVar) \o LazyStar(AnyNoBreak) \o Word(CloseVar),
        Word(OpenTag) \o LazyStar(AnyNoBreak) \o Word(CloseTag))

\* s.replace(re, replacer): the matches ms replaced by what the replacer
\* returned for each; a replacer that throws ends the call
Replaced(s, ms, reps) ==
    IF \E j \in DOMAIN reps : reps[j] = Thrown THEN Thrown
    ELSE Splice(s, ms, reps, 1, 1)

\* the matches ms of s each replaced by rep
Substitute(s, ms, rep) == Replaced(s, ms, [j \in DOMAIN ms |-> rep])

\* s.replace(re, rep) for a g-flag pattern and a replacement string free of `$`
ReplaceAll(s, re, rep) == Substitute(s, MatchAll(re, 0, s), rep)

-----------------------------------------------------------------------------
(* The functions of the template module                                    *)

RECURSIVE Walk(_, _, _)

\* `part in current` and the step it decides; the in operator throws a
\* TypeError when its right operand is no object
In(current, parts, j) ==
    IF current.t \notin {"object", "array"} THEN TypeError
    ELSE IF HasProperty(current, parts[j])
         THEN Walk(GetProperty(current, parts[j]), parts, j + 1)
         ELSE Undefined

\* Walk without the test `current && typeof current === 'object'`
WalkUnguarded(current, parts, j) ==
    IF j > Len(parts) THEN current ELSE In(current, parts, j)

\* the loop of getNestedValue from the j-th part on
Walk(current, parts, j) ==
    IF j > Len(parts) THEN current
    ELSE IF Truthy(current) /\ TypeOf(current) = "object"
         THEN In(current, parts, j)
         ELSE Undefined

\* Get nested value from object using dot notation
getNestedValue(obj, path) == Walk(obj, Split(path, "."), 1)

NotPrefix == <<"n","o","t"," ">>

\* context[variable] === value, value a string
StrictEquals(v, s) == v.t = "string" /\ v.s = s

\* the `not` branch and the default of evaluateCondition
NotCondition(condition, ctx) ==
    IF StartsWith(condition, NotPrefix)
    THEN ~Truthy(GetProperty(ctx, Trim(SubSeq(condition, 5, Len(condition)))))
    ELSE FALSE

\* the != branch of evaluateCondition, neqMatch the result of the match
NeqCondition(condition, ctx, neqMatch) ==
    IF neqMatch.ok
    THEN ~StrictEquals(GetProperty(ctx, Capture(condition, neqMatch, 1)),
                       Capture(condition, neqMatch, 2))
    ELSE NotCondition(condition, ctx)

\* the == branch of evaluateCondition, eqMatch the result of the match
EqCondition(condition, ctx, eqMatch) ==
    IF eqMatch.ok
    THEN StrictEquals(GetProperty(ctx, Capture(condition, eqMatch, 1)),
                      Capture(condition, eqMatch, 2))
    ELSE NeqCondition(condition, ctx, Exec(neqRegex, 2, condition))

\* evaluateCondition with a key of the context taken as true whatever it holds
evaluateMembership(condition, ctx) ==
    IF HasProperty(ctx, condition) THEN TRUE
    ELSE EqCondition(condition, ctx, Exec(eqRegex, 2, condition))

\* Evaluate a condition in the given context
evaluateCondition(condition, ctx) ==
    IF HasProperty(ctx, condition)
    THEN Truthy(GetProperty(ctx, condition))
    ELSE EqCondition(condition, ctx, Exec(eqRegex, 2, condition))

\* defaultMatch ? defaultMatch[1] : ''
DefaultValue(filterArgs, defaultMatch) ==
    IF defaultMatch.ok THEN Str(Capture(filterArgs, defaultMatch, 1))
    ELSE Str(<<>>)

\* filterArgs?.match(...) and the value it gives; filterArgs is undefined
\* when the filter has no parentheses
DefaultOf(filterArgs, given) ==
    IF given THEN DefaultValue(filterArgs, Exec(quotedRegex, 1, filterArgs))
    ELSE Str(<<>>)

\* the `default` case of applyFilter
DefaultFilter(value, m, filterStr) ==
    IF value.t \in {"undefined", "null"} \/ (value.t = "string" /\ value.s = <<>>)
    THEN DefaultOf(Capture(filterStr, m, 2), Captured(m, 2))
    ELSE value

\* the `capitalize` case of applyFilter
Capitalize(str) ==
    ToUpperCase(SubSeq(str, 1, 1)) \o ToLowerCase(SubSeq(str, 2, Len(str)))

\* filterArgs?.replace(/["']/g, '') || ', ', stripped the replaced arguments
Separator(stripped, given) ==
    IF given /\ stripped # <<>> THEN stripped ELSE <<",", " ">>

\* the `join` case of applyFilter
JoinFilter(value, m, filterStr) ==
    IF value.t = "array"
    THEN Str(ArrayJoin(value,
                       Separator(ReplaceAll(Capture(filterStr, m, 2), quoteRegex, <<>>),
                                 Captured(m, 2))))
    ELSE value

\* the `length` case of applyFilter
LengthFilter(value) ==
    IF value.t = "array" THEN Num(Len(value.a))
    ELSE IF value.t = "string" THEN Num(Len(value.s))
    ELSE Num(0)

\* the switch of applyFilter, str being String(value)
FilterSwitch(value, filterName, filterMatch, filterStr, str) ==
    CASE filterName = <<"d","e","f","a","u","l","t">> ->
            DefaultFilter(value, filterMatch, filterStr)
      [] filterName = <<"u","p","p","e","r">> -> Str(ToUpperCase(str))
      [] filterName = <<"l","o","w","e","r">> -> Str(ToLowerCase(str))
      [] filterName = <<"c","a","p","i","t","a","l","i","z","e">> ->
            Str(Capitalize(str))
      [] filterName = <<"l","e","n","g","t","h">> -> LengthFilter(value)
      [] filterName = <<"j","o","i","n">> ->
            JoinFilter(value, filterMatch, filterStr)
      [] OTHER -> value

\* applyFilter once the filter string is matched
Filtered(value, filterMatch, filterStr) ==
    IF ~filterMatch.ok THEN value
    ELSE FilterSwitch(value, Capture(filterStr, filterMatch, 1), filterMatch,
                      filterStr, StringOf(value))

\* Apply a filter to a value
applyFilter(value, filterStr) ==
    Filtered(value, Exec(filterCallRegex, 2, filterStr), filterStr)

\* Shown with a placeholder of an undefined value blanked
ShownBlank(value, match) ==
    IF value = TypeError THEN Thrown
    ELSE IF value.t # "undefined" THEN StringOf(value) ELSE <<>>

\* value !== undefined ? String(value) : match
Shown(value, match) ==
    IF value = TypeError THEN Thrown
    ELSE IF value.t # "undefined" THEN StringOf(value) ELSE match

\* the replacer of handleConditionals for the match m of tpl
ConditionalReplacer(tpl, m, ctx) ==
    IF evaluateCondition(Capture(tpl, m, 1), ctx)
    THEN Capture(tpl, m, 2)
    ELSE Capture(tpl, m, 3)

\* the matches ms of the conditional pattern replaced in tpl
ReplaceConditionals(tpl, ms, ctx) ==
    Replaced(tpl, ms, [j \in DOMAIN ms |-> ConditionalReplacer(tpl, ms[j], ctx)])

\* Handle conditional blocks
handleConditionals(tpl, ctx) ==
    ReplaceConditionals(tpl, MatchAll(conditionalRegex, 3, tpl), ctx)

\* the replacer of handleVariables for the match m of tpl
VariableReplacer(tpl, m, ctx) ==
    Shown(getNestedValue(ctx, Trim(Capture(tpl, m, 1))), Matched(tpl, m))

\* the matches ms of the variable pattern replaced in tpl
ReplaceVariables(tpl, ms, ctx) ==
    Replaced(tpl, ms, [j \in DOMAIN ms |-> VariableReplacer(tpl, ms[j], ctx)])

\* Handle variable substitution
handleVariables(tpl, ctx) ==
    ReplaceVariables(tpl, MatchAll(variableRegex, 1, tpl), ctx)

\* the filter parts applied to the looked-up value (no filter is applied
\* when the lookup threw)
FilterParts(value, filterParts) ==
    IF value = TypeError THEN TypeError
    ELSE IF Len(filterParts) > 0
         THEN applyFilter(value, JoinStrings(filterParts, <<"|">>))
         ELSE value

\* the value of the filter expression whose trimmed parts are given
PartsValue(trimmed, ctx) ==
    FilterParts(getNestedValue(ctx, trimmed[1]), Tail(trimmed))

\* expression.split('|').map(s => s.trim()), parts the split expression
TrimAll(parts) == [j \in DOMAIN parts |-> Trim(parts[j])]

\* the value the replacer of handleFilters computes for the expression
FilterValue(expression, ctx) == PartsValue(TrimAll(Split(expression, "|")), ctx)

\* the replacer of handleFilters for the match m of tpl
FilterReplacer(tpl, m, ctx) ==
    Shown(FilterValue(Capture(tpl, m, 1), ctx), Matched(tpl, m))

\* the matches ms of the filter pattern replaced in tpl
ReplaceFilters(tpl, ms, ctx) ==
    Replaced(tpl, ms, [j \in DOMAIN ms |-> FilterReplacer(tpl, ms[j], ctx)])

\* Handle template filters
handleFilters(tpl, ctx) ==
    ReplaceFilters(tpl, MatchAll(filterRegex, 1, tpl), ctx)

RECURSIVE renderTemplate(_, _)

\* the renderings joined with nothing between them; a render that threw
\* ends the call
Joined(strs) ==
    IF \E q \in DOMAIN strs : strs[q] = Thrown THEN Thrown
    ELSE JoinStrings(strs, <<>>)

\* Expand with a comma put between the renderings
ExpandSeparated(items, itemName, loopBody, ctx) ==
    IF items.t # "array" THEN <<>>
    ELSE JoinStrings([q \in DOMAIN items.a |->
                         renderTemplate(loopBody, Extend(ctx, itemName, items.a[q]))],
                     <<",">>)

\* items.map(...).join('') of handleForLoops, or '' when items is no array
Expand(items, itemName, loopBody, ctx) ==
    IF items.t # "array" THEN <<>>
    ELSE Joined([q \in DOMAIN items.a |->
                    renderTemplate(loopBody, Extend(ctx, itemName, items.a[q]))])

\* the replacer of handleForLoops for the match m of tpl
LoopReplacer(tpl, m, ctx) ==
    Expand(GetProperty(ctx, Capture(tpl, m, 2)), Capture(tpl, m, 1),
           Capture(tpl, m, 3), ctx)

\* the matches ms of the loop pattern replaced in tpl
ReplaceLoops(tpl, ms, ctx) ==
    Replaced(tpl, ms, [j \in DOMAIN ms |-> LoopReplacer(tpl, ms[j], ctx)])

\* Handle for loops
handleForLoops(tpl, ctx) ==
    ReplaceLoops(tpl, MatchAll(forRegex, 3, tpl), ctx)

\* context with the loop variable assigned in it
ContextAssigned(ctx, itemName, item) == Extend(ctx, itemName, item)

\* the caller's context once an iteration has built its loopContext: the
\* loop variable is written to the fresh object of the literal
\* { ...context, [itemName]: item }, so context keeps its keys and values
ContextKept(ctx, itemName, item) == ctx

\* the caller's context after the iterations q.. of one for block
RECURSIVE AfterItems(_, _, _, _)
AfterItems(ctx, itemName, items, q) ==
    IF items.t # "array" \/ q > Len(items.a) THEN ctx
    ELSE AfterItems(ContextKept(ctx, itemName, items.a[q]), itemName, items, q + 1)

\* the caller's context after the for blocks ms[j].. of tpl
RECURSIVE AfterBlocks(_, _, _, _)
AfterBlocks(tpl, ms, j, ctx) ==
    IF j > Len(ms) THEN ctx
    ELSE AfterBlocks(tpl, ms, j + 1,
                     AfterItems(ctx, Capture(tpl, ms[j], 1),
                                GetProperty(ctx, Capture(tpl, ms[j], 2)), 1))

\* the caller's context object after handleForLoops(tpl, ctx)
ContextAfterLoops(tpl, ctx) == AfterBlocks(tpl, MatchAll(forRegex, 3, tpl), 1, ctx)

\* renderTemplate returning after the variable stage, the filter stage left out
renderUnfiltered(tpl, ctx) ==
    IF tpl = <<>> THEN <<>>
    ELSE handleVariables(handleForLoops(handleConditionals(tpl, ctx), ctx), ctx)

\* Render a template string with the given context
renderTemplate(tpl, ctx) ==
    IF tpl = <<>> THEN <<>>
    ELSE handleFilters(
            handleVariables(
                handleForLoops(handleConditionals(tpl, ctx), ctx), ctx), ctx)

\* Escape special characters in a string for use in templates
escapeTemplate(str) ==
    ReplaceAll(
        ReplaceAll(
            ReplaceAll(
                ReplaceAll(str, openVarRegex, <<"\\", "{", "\\", "{">>),
                closeVarRegex, <<"\\", "}", "\\", "}">>),
            openTagRegex, <<"\\", "{", "\\", "%">>),
        closeTagRegex, <<"\\", "%", "\\", "}">>)

\* Check if a string contains template syntax
hasTemplateSyntax(str) == Exec(syntaxRegex, 0, str).ok

-----------------------------------------------------------------------------
(* The operations as steps                                                 *)

\* where a call goes on after a stage gave r: a stage that throws ends it
After(r, next) == IF r = Thrown THEN "error" ELSE next

\* renderTemplate on the empty template: `if (!template) return ''`
RenderEmpty ==
    /\ pc = "render"
    /\ template = <<>>
    /\ result' = <<>>
    /\ pc' = "done"
    /\ UNCHANGED <<template, context, found>>

\* result = handleConditionals(result, context), result being the template
Conditionals ==
    /\ pc = "render"
    /\ template # <<>>
    /\ result' = handleConditionals(template, context)
    /\ pc' = After(result', "loops")
    /\ UNCHANGED <<template, context, found>>

\* the loop stage handing its output back to the start of the call
ForLoopsRestarting ==
    /\ pc = "loops"
    /\ result' = handleForLoops(result, context)
    /\ pc' = After(result', "render")
    /\ UNCHANGED <<template, context, found>>

\* result = handleForLoops(result, context), the recursive renders included
ForLoops ==
    /\ pc = "loops"
    /\ result' = handleForLoops(result, context)
    /\ context' = ContextAfterLoops(result, context)
    /\ pc' = After(result', "variables")
    /\ UNCHANGED <<template, found>>

\* result = handleVariables(result, context)
Variables ==
    /\ pc = "variables"
    /\ result' = handleVariables(result, context)
    /\ pc' = After(result', "filters")
    /\ UNCHANGED <<template, context, found>>

\* result = handleFilters(result, context); return result
Filters ==
    /\ pc = "filters"
    /\ result' = handleFilters(result, context)
    /\ pc' = After(result', "done")
    /\ UNCHANGED <<template, context, found>>

\* a caller asks hasTemplateSyntax(template) and then renders
CheckSyntax ==
    /\ pc = "check"
    /\ found' = hasTemplateSyntax(template)
    /\ pc' = "render"
    /\ UNCHANGED <<template, context, result>>

\* escapeTemplate(template)
Escape ==
    /\ pc = "escape"
    /\ result' = escapeTemplate(template)
    /\ pc' = "escaped"
    /\ UNCHANGED <<template, context, found>>

\* hasTemplateSyntax of the escaped text
CheckEscaped ==
    /\ pc = "escaped"
    /\ found' = hasTemplateSyntax(result)
    /\ pc' = "done"
    /\ UNCHANGED <<template, context, result>>

\* one call of renderTemplate
Next == RenderEmpty \/ Conditionals \/ ForLoops \/ Variables \/ Filters

\* a caller that asks hasTemplateSyntax and then renders
NextChecked == CheckSyntax \/ Next

\* a caller that escapes a text and asks hasTemplateSyntax of the outcome
NextEscape == Escape \/ CheckEscaped

-----------------------------------------------------------------------------
(* Inputs: templates are written with the tags of the module's header      *)
(* comment, contexts are built from optional bindings                      *)

\* {% for item in list %}body{% endfor %}
ForBlock(item, list, body) ==
    <<"{","%"," ","f","o","r"," ">> \o item \o <<" ","i","n"," ">> \o list
    \o <<" ","%","}">> \o body \o <<"{","%"," ","e","n","d","f","o","r"," ","%","}">>

\* {% if cond %}yes{% endif %}
IfBlock(cond, yes) ==
    <<"{","%"," ","i","f"," ">> \o cond \o <<" ","%","}">> \o yes
    \o <<"{","%"," ","e","n","d","i","f"," ","%","}">>

\* {% if cond %}yes{% else %}no{% endif %}
IfElseBlock(cond, yes, no) ==
    <<"{","%"," ","i","f"," ">> \o cond \o <<" ","%","}">> \o yes
    \o <<"{","%"," ","e","l","s","e"," ","%","}">> \o no
    \o <<"{","%"," ","e","n","d","i","f"," ","%","}">>

\* {{inner}}
Placeholder(inner) == OpenVar \o inner \o CloseVar

\* a binding that a context does not hold
Absent == Value("absent", FALSE, 0, <<>>, <<>>, <<>>)

\* the object holding key: v, or nothing when v is Absent
Bind(key, v) == IF v = Absent THEN [q \in {} |-> Absent] ELSE (key :> v)

\* the sequences over the set S of length at most n
SeqsUpTo(S, n) == UNION {[1..m -> S] : m \in 0..n}

\* the context {}
EmptyObject == Obj([q \in {} |-> Absent])

\* whether the context binds key to v
Binds(ctx, key, v) == key \in DOMAIN ctx.o /\ ctx.o[key] = v

\* context[key]: undefined for a key the context does not hold
Bound(ctx, key) == IF key \in DOMAIN ctx.o THEN ctx.o[key] ELSE Undefined

\* the values that are falsy
Falsy == { Undefined, Null, Bool(FALSE), Num(0), Str(<<>>) }

KeyA  == <<"a">>
KeyB  == <<"b">>
KeyC  == <<"c">>
KeyI  == <<"i">>
KeyN  == <<"n">>
KeyXs == <<"x","s">>
Names == <<"n","a","m","e","s">>

Yes == <<"Y">>
No  == <<"N">>

-----
(* Loops: renderTemplate on templates holding one for block                *)

\* the longest list a context holds
MaxItems == 2

Al == <<"A","l">>
Bo == <<"B","o">>

\* {% for n in names %}{% if n == "Bo" %}VIP:{{n}}{% else %}{{n|upper}}{% endif %};{% endfor %}
LoopCondTemplate ==
    ForBlock(KeyN, Names,
             IfElseBlock(<<"n"," ","=","="," ","\"">> \o Bo \o <<"\"">>,
                         <<"V","I","P",":">> \o Placeholder(KeyN),
                         Placeholder(<<"n","|","u","p","p","e","r">>))
             \o <<";">>)

\* {% if i == "Bo" %}V{% else %}W{% endif %}
CondBody == IfElseBlock(<<"i"," ","=","="," ","\"">> \o Bo \o <<"\"">>, <<"V">>, <<"W">>)

\* {% if i %}Y{% endif %}
TruthBody == IfBlock(KeyI, Yes)

\* [{{i}}]
BracketBody == <<"[">> \o Placeholder(KeyI) \o <<"]">>

\* {{ i }}{{xs.length}}
CountBody ==
    Placeholder(<<" ","i"," ">>) \o Placeholder(<<"x","s",".","l","e","n","g","t","h">>)

\* {{i|upper}};
UpperBody == Placeholder(<<"i","|","u","p","p","e","r">>) \o <<";">>

\* loop bodies free of control blocks: text, the loop variable bare, padded
\* and filtered, another context key
PlainBodies == { <<>>, <<"x">>, BracketBody, CountBody, UpperBody }

\* what stands before or after the loop block
Outside == { <<>>, Placeholder(KeyI), IfElseBlock(KeyI, Yes, No) }

LoopTemplates ==
    { pre \o ForBlock(KeyI, KeyXs, body) \o post :
        pre \in Outside, body \in PlainBodies \cup {CondBody}, post \in Outside }
    \cup
    \* an if nested in an if: the conditional stage leaves the inner one
    { ForBlock(KeyI, KeyXs, IfBlock(KeyXs, TruthBody)) \o post : post \in Outside }
    \cup { <<>> }

\* the elements of the lists
Elements == { Str(Al), Str(Bo), Num(0) }

\* what xs is bound to: nothing, a value that is no array, a list
ListValues ==
    { Absent, Undefined, Null, Str(Al), Num(1), Obj(KeyC :> Num(1)) }
    \cup { Arr(q) : q \in SeqsUpTo(Elements, MaxItems) }

InitLoop ==
    /\ pc = "render"
    /\ result = <<>>
    /\ found = FALSE
    /\ \/ /\ template = LoopCondTemplate
          /\ \E names \in SeqsUpTo({Str(Al), Str(Bo)}, MaxItems), n \in {Absent, Str(Bo)} :
                context = Obj(Bind(Names, Arr(names)) @@ Bind(KeyN, n))
       \/ /\ template \in LoopTemplates
          /\ \E xs \in ListValues, i \in {Absent, Str(Bo)} :
                context = Obj(Bind(KeyXs, xs) @@ Bind(KeyI, i))

SpecLoop == InitLoop /\ [][Next]_vars

\* the strings of strs one after the other
Concat(strs) == JoinStrings(strs, <<>>)

\* what the template of C1 is to give for the element el
VipOrUpper(el) ==
    IF el = Str(Bo) THEN <<"V","I","P",":">> \o el.s \o <<";">>
    ELSE ToUpperCase(el.s) \o <<";">>

\* C1: a conditional inside a for-loop body is evaluated once per iteration
\* against the iteration's context: for the template LoopCondTemplate and
\* every list names, render gives for each element in order VIP:<n>; when the
\* element is "Bo" and <upper(n)>; otherwise
C1_LoopConditionalPerIteration ==
    pc = "done" /\ template = LoopCondTemplate =>
        result = Concat([k \in DOMAIN context.o[Names].a |->
                            VipOrUpper(context.o[Names].a[k])])

\* the rendering of a loop body with the loop variable bound to el, an
\* element of a list of n
Rendering(body, el, n) ==
    CASE body = BracketBody -> <<"[">> \o StringOf(el) \o <<"]">>
      [] body = CountBody   -> StringOf(el) \o NumToString(n)
      [] body = UpperBody   -> ToUpperCase(StringOf(el)) \o <<";">>
      [] body = TruthBody   -> IF el \in Falsy THEN <<>> ELSE Yes
      [] body = CondBody    -> IF el = Str(Bo) THEN <<"V">> ELSE <<"W">>
      [] OTHER              -> body

\* what a for block over xs with the given body is replaced by: one rendering
\* per element in order, nothing when xs is bound to no list
Expansion(body, ctx) ==
    IF Bound(ctx, KeyXs).t = "array"
    THEN Concat([k \in DOMAIN ctx.o[KeyXs].a |->
                    Rendering(body, ctx.o[KeyXs].a[k], Len(ctx.o[KeyXs].a))])
    ELSE <<>>

\* the loop bodies and the surrounding text the loop stage meets: the
\* conditional stage has resolved the blocks of the template by then
StageBodies == PlainBodies \cup { TruthBody, <<"V">>, <<"W">> }
StageOutside == { <<>>, Placeholder(KeyI), Yes, No }

OutsideValue(text, ctx) ==
    CASE text = Placeholder(KeyI) ->
            IF Bound(ctx, KeyI) = Undefined THEN text ELSE StringOf(Bound(ctx, KeyI))
      [] text = IfElseBlock(KeyI, Yes, No) ->
            IF Bound(ctx, KeyI) \in Falsy THEN No ELSE Yes
      [] OTHER -> text

\* C4: inside the loop body every reference to the loop variable i is the
\* current element, also when the outer context binds i; what stands before
\* and after the block is resolved against the outer context
C4_LoopVariableScoping ==
    pc = "done" =>
        \A pre \in Outside, post \in Outside, body \in PlainBodies \cup {CondBody} :
            template = pre \o ForBlock(KeyI, KeyXs, body) \o post
                => result = OutsideValue(pre, context) \o Expansion(body, context)
                                \o OutsideValue(post, context)

StagesInOrder(t, ctx) ==
    handleFilters(handleVariables(handleForLoops(handleConditionals(t, ctx), ctx),
                                  ctx), ctx)

\* the steps of the stages after the first: loops, then plain variables, then
\* filters, each on the result of the stage before, and then the return
LaterStages ==
    /\ pc = "loops" =>
          pc' = "variables" /\ result' = handleForLoops(result, context)
    /\ pc = "variables" =>
          pc' = "filters" /\ result' = handleVariables(result, context)
    /\ pc = "filters" =>
          pc' = "done" /\ result' = handleFilters(result, context)

\* the call made for each iteration of the block {% for i in xs %}body{% endfor %}
\* returns what the four stages in their order give on the body
IterationsRun(body) ==
    pc = "loops" /\ result = ForBlock(KeyI, KeyXs, body)
        /\ Bound(context, KeyXs).t = "array"
    => result' = Concat([k \in DOMAIN context.o[KeyXs].a |->
                            StagesInOrder(body,
                                Extend(context, KeyI, context.o[KeyXs].a[k]))])

-----------------------------------------------------------------------------
(* Placeholders: renderTemplate on templates holding one placeholder       *)

\* what the key b of a nested object holds
NestedValues == { Undefined, Null, Str(Bo), Num(0), Obj(KeyC :> Str(Al)) }

\* what the key a of the context holds
PlaceValues ==
    { Absent, Undefined, Null, Bool(FALSE), Bool(TRUE), Num(0), Num(7),
      Str(<<>>), Str(Al), Arr(<<>>), Arr(<<Str(Al), Null, Num(7)>>) }
    \cup { Obj(KeyB :> w) : w \in NestedValues }

\* the text between the braces of a bare placeholder and the keys of its path
BarePaths ==
    { [inner |-> <<"a">>,                     keys |-> <<KeyA>>],
      [inner |-> <<" ","a"," ">>,             keys |-> <<KeyA>>],
      [inner |-> <<"b">>,                     keys |-> <<KeyB>>],
      [inner |-> <<"\n","b","\t">>,           keys |-> <<KeyB>>],
      [inner |-> <<"a",".","b">>,             keys |-> <<KeyA, KeyB>>],
      [inner |-> <<" ","a",".","b"," "," ">>, keys |-> <<KeyA, KeyB>>],
      [inner |-> <<"a",".","c">>,             keys |-> <<KeyA, KeyC>>],
      [inner |-> <<"a",".","b",".","c">>,     keys |-> <<KeyA, KeyB, KeyC>>] }

\* <{{inner}}>
Framed(inner) == <<"<">> \o Placeholder(inner) \o <<">">>

\* the argument of a default filter as written and the literal it denotes
Literals ==
    { [text |-> <<"\"","x","\"">>,         value |-> <<"x">>],
      [text |-> <<"'","n","o"," ","a","'">>, value |-> <<"n","o"," ","a">>],
      [text |-> <<"5">>,                   value |-> <<"5">>] }

\* {{a|default(text)}} and {{ a | default(text) }}
DefaultPlaceholders(text) ==
    { Placeholder(<<"a","|","d","e","f","a","u","l","t","(">> \o text \o <<")">>),
      Placeholder(<<" ","a"," ","|"," ","d","e","f","a","u","l","t","(">> \o text
                  \o <<")"," ">>) }

PlaceholderTemplates ==
    { Framed(p.inner) : p \in BarePaths }
    \cup UNION { DefaultPlaceholders(lit.text) : lit \in Literals }
    \cup { <<>> }

InitPlaceholder ==
    /\ pc = "render"
    /\ result = <<>>
    /\ found = FALSE
    /\ template \in PlaceholderTemplates
    /\ \E a \in PlaceValues : context = Obj(Bind(KeyA, a))

SpecPlaceholder == InitPlaceholder /\ [][Next]_vars

\* the key of a mapping: undefined when v is no mapping or does not hold it
Field(v, key) ==
    IF v.t = "object" /\ key \in DOMAIN v.o THEN v.o[key] ELSE Undefined

\* the path keys resolved from v by sequential key lookup
RECURSIVE Resolve(_, _)
Resolve(v, keys) ==
    IF keys = <<>> THEN v ELSE Resolve(Field(v, Head(keys)), Tail(keys))

C10_DefaultFilter ==
    pc = "done" =>
        \A lit \in Literals :
            template \in DefaultPlaceholders(lit.text) =>
                result = IF Bound(context, KeyA) \in {Undefined, Null, Str(<<>>)}
                         THEN lit.value
                         ELSE StringOf(Bound(context, KeyA))

-----------------------------------------------------------------------------
(* Conditionals: renderTemplate on templates holding if blocks             *)

\* {% if a %}Y{% else %}N{% endif %}-{% if b %}Z{% endif %}
ElseThenPlain == IfElseBlock(KeyA, Yes, No) \o <<"-">> \o IfBlock(KeyB, <<"Z">>)

\* {% if b %}Z{% endif %}-{% if a %}Y{% else %}N{% endif %}
PlainThenElse == IfBlock(KeyB, <<"Z">>) \o <<"-">> \o IfElseBlock(KeyA, Yes, No)

\* a comparison as written, whether it is !=, and its literal
Comparisons ==
    { [text |-> <<"a"," ","=","="," ","\"">> \o Bo \o <<"\"">>, neq |-> FALSE, lit |-> Bo],
      [text |-> <<"a"," ","!","="," ","\"">> \o Bo \o <<"\"">>, neq |-> TRUE,  lit |-> Bo],
      [text |-> <<"a","=","=","'">> \o Al \o <<"'">>,           neq |-> FALSE, lit |-> Al],
      [text |-> <<"a"," ","=","="," ","\"","\"">>,              neq |-> FALSE, lit |-> <<>>],
      [text |-> <<"a"," ","!","="," ","\"","\"">>,              neq |-> TRUE,  lit |-> <<>>] }

ConditionalTemplates ==
    { IfElseBlock(KeyA, Yes, No), IfBlock(KeyA, Yes), ElseThenPlain, PlainThenElse }
    \cup { IfElseBlock(c.text, Yes, No) : c \in Comparisons }
    \cup { <<>> }

\* what the keys a and b of the context hold
CondValues ==
    { Absent, Undefined, Null, Bool(FALSE), Bool(TRUE), Num(0), Num(1),
      Str(<<>>), Str(Al), Str(Bo), Arr(<<>>), Obj(KeyC :> Num(0)) }

InitConditional ==
    /\ pc = "render"
    /\ result = <<>>
    /\ found = FALSE
    /\ template \in ConditionalTemplates
    /\ \E a \in CondValues, b \in {Absent, Bool(TRUE), Num(0)} :
            context = Obj(Bind(KeyA, a) @@ Bind(KeyB, b))

SpecConditional == InitConditional /\ [][Next]_vars

\* whether the bare condition key holds: the key is bound to a truthy value
Holds(ctx, key) == Bound(ctx, key) \notin Falsy

\* C5: an if block with a bare identifier as condition is replaced by its if
\* branch when the identifier is bound to a truthy value, and by its else
\* branch (the empty string when it has none) when the identifier is bound to
\* a falsy value or absent; several blocks are decided independently
C5_BareCondition ==
    pc = "done" =>
        /\ template = IfElseBlock(KeyA, Yes, No)
            => result = IF Holds(context, KeyA) THEN Yes ELSE No
        /\ template = IfBlock(KeyA, Yes)
            => result = IF Holds(context, KeyA) THEN Yes ELSE <<>>
        /\ template = ElseThenPlain
            => result = (IF Holds(context, KeyA) THEN Yes ELSE No) \o <<"-">>
                        \o (IF Holds(context, KeyB) THEN <<"Z">> ELSE <<>>)
        /\ template = PlainThenElse
            => result = (IF Holds(context, KeyB) THEN <<"Z">> ELSE <<>>) \o <<"-">>
                        \o (IF Holds(context, KeyA) THEN Yes ELSE No)

\* C5 witness: two blocks have been rendered, the first to its else branch
\* (a is bound to the falsy 0), the second to its if branch
C5_Witness ==
    /\ pc = "done"
    /\ template = ElseThenPlain
    /\ Binds(context, KeyA, Num(0))
    /\ Binds(context, KeyB, Bool(TRUE))
    /\ result = <<"N","-","Z">>

\* C6: a == "literal" holds exactly when a is bound to a string equal to the
\* literal and a != "literal" exactly when it is not, for every quoted
\* literal, the empty one included
C6_Comparison ==
    pc = "done" =>
        \A c \in Comparisons :
            template = IfElseBlock(c.text, Yes, No) =>
                result = IF (Bound(context, KeyA) = Str(c.lit)) # c.neq
                         THEN Yes ELSE No

-----------------------------------------------------------------------------
(* Texts: hasTemplateSyntax and renderTemplate on broken and plain texts   *)

IfTag     == <<"{","%"," ","i","f"," ","a"," ","%","}">>
ElseTag   == <<"{","%"," ","e","l","s","e"," ","%","}">>
EndIfTag  == <<"{","%"," ","e","n","d","i","f"," ","%","}">>
ForTag    == <<"{","%"," ","f","o","r"," ","i"," ","i","n"," ","x","s"," ","%","}">>
EndForTag == <<"{","%"," ","e","n","d","f","o","r"," ","%","}">>

\* constructs no pattern of the module matches: unclosed and dangling tags,
\* an if closed by an endfor, a placeholder that is not closed or has a
\* broken filter
Unmatched ==
    { IfTag \o Yes,
      Yes \o EndIfTag,
      ElseTag,
      EndIfTag \o IfTag,
      ForTag \o <<"x">>,
      <<"x">> \o EndForTag,
      IfTag \o Yes \o EndForTag,
      <<"{","{","a">>,
      <<"a","}","}">>,
      <<"{","{","a","|","}","}">>,
      <<"{","{","a","|","n","o","p","e","(","}","}">> }

\* a condition of none of the forms evaluateCondition knows
Unrecognised == <<"a"," ",">"," ","1">>

\* {{a|nope}}: a filter applyFilter does not know
UnknownFilter == Placeholder(<<"a","|","n","o","p","e">>)

\* {% for i in a %}x{% endfor %}
LoopOverA == ForBlock(KeyI, KeyA, <<"x">>)

\* tags that overlap: an if block closed inside a for block and the reverse
Overlapping ==
    { IfTag \o ForTag \o EndIfTag \o <<"x">> \o EndForTag,
      ForTag \o IfTag \o EndForTag \o Yes \o EndIfTag }

\* paths that go through the value of a
DeepPaths ==
    { Placeholder(<<"a",".","b">>),
      Placeholder(<<"a",".","b",".","c">>),
      Placeholder(<<"a",".","b","|","u","p","p","e","r">>),
      ForBlock(KeyI, KeyXs, Placeholder(<<"i",".","b">>)) }

\* texts without a marker, and placeholders and tags broken over lines
PlainTexts ==
    { <<"h","i">>,
      <<"{"," ","{","a","}"," ","}">>,
      <<"a","\n","{","b","\n">>,
      <<"{","{","\n","a","\n","}","}">>,
      <<"{","{","a","\n","}","}">>,
      <<"{","%","\n","i","f"," ","a","\n","%","}">> \o Yes
        \o <<"{","%","\n","e","n","d","i","f","\n","%","}">> }

TextTemplates ==
    Unmatched \cup Overlapping \cup DeepPaths \cup PlainTexts
    \cup { IfElseBlock(Unrecognised, Yes, No), IfBlock(Unrecognised, Yes),
           UnknownFilter, LoopOverA, Placeholder(KeyA), <<>> }

\* what the key a of the context holds
TextValues ==
    { Absent, Undefined, Null, Bool(TRUE), Num(0), Str(<<>>), Str(Al),
      Arr(<<Str(Al)>>), Obj(KeyB :> Str(Bo)), Obj(KeyB :> Null) }

InitText ==
    /\ pc = "check"
    /\ result = <<>>
    /\ found = FALSE
    /\ template \in TextTemplates
    /\ \E a \in TextValues, xs \in {Absent, Arr(<<>>), Arr(<<Num(0), Str(Al)>>)} :
            context = Obj(Bind(KeyA, a) @@ Bind(KeyXs, xs))

SpecText == InitText /\ [][NextChecked]_vars

C8_NoSyntaxIdentity == pc = "done" /\ ~found => result = template

-----------------------------------------------------------------------------
(* Escaping: escapeTemplate and hasTemplateSyntax of its outcome           *)

\* the longest text of braces and percent signs escaped
MaxText == 6

EscapeTexts ==
    SeqsUpTo({"{", "}", "%"}, MaxText)
    \cup { <<"{","{","{","a","}","}","}">>, <<"{","{","%">>, <<"{","{","a","}","}">>,
           <<"{","%"," ","i","f"," ","a"," ","%","}">> }

InitEscape ==
    /\ pc = "escape"
    /\ result = <<>>
    /\ found = FALSE
    /\ template \in EscapeTexts
    /\ context = EmptyObject

SpecEscape == InitEscape /\ [][NextEscape]_vars

\* C9: for every text t, hasTemplateSyntax(escapeTemplate(t)) is false
C9_EscapeHidesSyntax == pc = "done" => ~found

-----------------------------------------------------------------------------
(* Joins: renderTemplate on templates holding one join filter              *)

\* the argument of a join filter as written and the separator it denotes
Separators ==
    { [text |-> <<"\"","-","\"">>,             value |-> <<"-">>],
      [text |-> <<"'"," ","a","n","d"," ","'">>, value |-> <<" ","a","n","d"," ">>],
      [text |-> <<"\"",","," ","\"">>,         value |-> <<","," ">>],
      [text |-> <<"\"","|","\"">>,             value |-> <<"|">>],
      [text |-> <<"\""," ","|"," ","\"">>,     value |-> <<" ","|"," ">>],
      [text |-> <<"\"","\"">>,                 value |-> <<>>] }

\* {{a|join(text)}}
JoinPlaceholder(text) ==
    Placeholder(<<"a","|","j","o","i","n","(">> \o text \o <<")">>)

\* {{a|join}}
BareJoin == Placeholder(<<"a","|","j","o","i","n">>)

JoinTemplates ==
    { JoinPlaceholder(sep.text) : sep \in Separators } \cup { BareJoin, <<>> }

\* what the key a holds: a list of strings and numbers, or a value that is
\* no list
JoinValues ==
    { Arr(q) : q \in SeqsUpTo({Str(Al), Str(Bo), Num(7)}, MaxItems) }
    \cup { Absent, Null, Bool(TRUE), Num(7), Str(Al), Obj(KeyB :> Num(0)) }

InitJoin ==
    /\ pc = "render"
    /\ result = <<>>
    /\ found = FALSE
    /\ template \in JoinTemplates
    /\ \E a \in JoinValues : context = Obj(Bind(KeyA, a))

SpecJoin == InitJoin /\ [][Next]_vars

\* what a join placeholder is to give for the value v and the separator sep:
\* the elements joined by sep for a list, the value let through otherwise
JoinOutcome(v, sep, placeholder) ==
    IF v.t = "array" THEN JoinStrings([k \in DOMAIN v.a |-> StringOf(v.a[k])], sep)
    ELSE IF v = Undefined THEN placeholder ELSE StringOf(v)

\* C11: {{ a | join(separator) }} gives the elements of the list a joined by
\* exactly the separator, for every separator (the empty one and those with
\* spaces or | included); ", " is the separator only when the argument is
\* omitted; a value that is no list passes through unchanged
C11_JoinFilter ==
    pc = "done" =>
        /\ \A sep \in Separators :
              template = JoinPlaceholder(sep.text) =>
                  result = JoinOutcome(Bound(context, KeyA), sep.value, template)
        /\ template = BareJoin =>
              result = JoinOutcome(Bound(context, KeyA), <<",", " ">>, template)

-----------------------------------------------------------------------------
(* Nested ifs: renderTemplate on an if block inside the branch of another  *)

\* {% if b %}Y{% endif %}
InnerIf == IfBlock(KeyB, Yes)

\* {% if a %}X{% if b %}Y{% endif %}Z{% endif %}
NestedIf == IfBlock(KeyA, <<"X">> \o InnerIf \o <<"Z">>)

\* {% if a %}{% if b %}Y{% endif %}{% else %}N{% endif %}
NestedIfElse == IfElseBlock(KeyA, InnerIf, No)

NestedTemplates == { NestedIf, NestedIfElse, <<>> }

InitNested ==
    /\ pc = "render"
    /\ result = <<>>
    /\ found = FALSE
    /\ template \in NestedTemplates
    /\ \E a \in CondValues, b \in CondValues :
            context = Obj(Bind(KeyA, a) @@ Bind(KeyB, b))

SpecNested == InitNested /\ [][Next]_vars

\* C13: an if block nested in the chosen branch of another is itself
\* resolved: {% if a %}X{% if b %}Y{% endif %}Z{% endif %} gives XYZ for a
\* and b truthy, XZ for a truthy and b falsy, and nothing for a falsy; no tag
\* of a well-nested template is left in the output
C13_NestedIf ==
    pc = "done" =>
        /\ template = NestedIf =>
              result = IF Holds(context, KeyA)
                       THEN <<"X">> \o (IF Holds(context, KeyB) THEN Yes ELSE <<>>)
                            \o <<"Z">>
                       ELSE <<>>
        /\ template = NestedIfElse =>
              result = IF Holds(context, KeyA)
                       THEN (IF Holds(context, KeyB) THEN Yes ELSE <<>>)
                       ELSE No


-----------------------------------------------------------------------------
(* Termination: the calls renderTemplate makes for loop iterations, on     *)
(* sibling and nested for blocks and on values that hold a for block       *)

\* {% for i in xs %}{{i}}{% endfor %}, as a template and as a context value
LoopOverXs == ForBlock(KeyI, KeyXs, Placeholder(KeyI))

\* {% for i in xs %}{% for i in xs %}Z{% endfor %}W{% endfor %}: the outer
\* block is closed by the first {% endfor %}
NestedFor == ForBlock(KeyI, KeyXs, ForBlock(KeyI, KeyXs, <<"Z">>) \o <<"W">>)

\* {% for i in xs %}Z{% end
OpenedFor ==
    <<"{","%"," ","f","o","r"," ","i"," ","i","n"," ","x","s"," ","%","}",
      "Z","{","%"," ","e","n","d">>

\* {% if a %}{% for i in xs %}Z{% end{% endif %}for %}: a loop body that
\* holds a for block once its if block has been resolved
HiddenFor == IfBlock(KeyA, OpenedFor) \o <<"f","o","r"," ","%","}">>

\* {% for i in xs %}{% if a %}{% if a %}{% endif %}{% for i in xs %}Z{% end{% endif %}for %}{% endfor %}:
\* the conditional stage of the call leaves HiddenFor as the body of the
\* block, and the call for an iteration makes calls of its own
DeepFor ==
    ForBlock(KeyI, KeyXs,
             IfBlock(KeyA, IfTag) \o OpenedFor \o EndIfTag
             \o <<"f","o","r"," ","%","}">>)

NestTemplates ==
    { <<>>, LoopOverXs, LoopOverXs \o ForBlock(KeyI, KeyXs, UpperBody),
      NestedFor, DeepFor }

InitNest ==
    /\ pc = "render"
    /\ result = <<>>
    /\ found = FALSE
    /\ template \in NestTemplates
    /\ \E xs \in SeqsUpTo({Str(Al), Str(LoopOverXs)}, MaxItems), a \in BOOLEAN :
            context = Obj(Bind(KeyXs, Arr(xs)) @@ Bind(KeyA, Bool(a)))

\* a step of a call that has not returned: it leaves its statement for a
\* later one, whatever text it puts in result
Proceeds ==
    /\ pc \notin {"done", "error"}
    /\ pc' \in {"loops", "variables", "filters", "done", "error"} \ {pc}
    /\ UNCHANGED result \/ result' # result
    /\ UNCHANGED <<template, context, found>>

\* a call is synchronous and runs its statements one after the other to its
\* return: a call that has not returned is not held at a statement for ever
SpecNest == InitNest /\ [][Next]_vars /\ WF_vars(Proceeds)

\* the greatest number of the set S of naturals, 0 for the empty set
MaxOf(S) == CHOOSE x \in S \cup {0} : \A y \in S \cup {0} : y <= x

RECURSIVE BodiesShorter(_, _)
\* the iterations of one for block of a call on tpl: the body is strictly
\* shorter than tpl, and so it is in the calls made for the iterations
BlockShorter(tpl, loopBody, itemName, items, ctx) ==
    /\ Len(loopBody) < Len(tpl)
    /\ items.t = "array" =>
          \A q \in DOMAIN items.a :
              BodiesShorter(loopBody, Extend(ctx, itemName, items.a[q]))

\* the for blocks of text, the output of the conditional stage of a call on tpl
BlocksShorter(tpl, text, ms, ctx) ==
    \A j \in DOMAIN ms :
        BlockShorter(tpl, Capture(text, ms[j], 3), Capture(text, ms[j], 1),
                     GetProperty(ctx, Capture(text, ms[j], 2)), ctx)

\* the loop stage of a call on tpl, given the output of its conditional stage
LoopsShorter(tpl, text, ctx) ==
    text = Thrown \/ BlocksShorter(tpl, text, MatchAll(forRegex, 3, text), ctx)

\* every call that renderTemplate(tpl, ctx) makes for a loop iteration, at
\* any depth, receives a body strictly shorter than the template of the call
\* that makes it
BodiesShorter(tpl, ctx) ==
    tpl = <<>> \/ LoopsShorter(tpl, handleConditionals(tpl, ctx), ctx)

RECURSIVE CallDepth(_, _)
\* the depth of the calls made for the iterations of one for block
BlockDepth(loopBody, itemName, items, ctx) ==
    IF items.t # "array" THEN 0
    ELSE MaxOf({ 1 + CallDepth(loopBody, Extend(ctx, itemName, items.a[q])) :
                 q \in DOMAIN items.a })

\* the depth of the calls made for the for blocks ms of text
BlocksDepth(text, ms, ctx) ==
    MaxOf({ BlockDepth(Capture(text, ms[j], 3), Capture(text, ms[j], 1),
                       GetProperty(ctx, Capture(text, ms[j], 2)), ctx) :
            j \in DOMAIN ms })

\* the depth of the calls made by the loop stage on text
LoopsDepth(text, ctx) ==
    IF text = Thrown THEN 0
    ELSE BlocksDepth(text, MatchAll(forRegex, 3, text), ctx)

\* how deep the calls of renderTemplate(tpl, ctx) for loop iterations nest:
\* 0 when it makes none
CallDepth(tpl, ctx) ==
    IF tpl = <<>> THEN 0 ELSE LoopsDepth(handleConditionals(tpl, ctx), ctx)

-----------------------------------------------------------------------------
(* Values: renderTemplate on contexts whose values hold placeholders       *)

\* {{b}}, {{ b }} and {{b|upper}} as texts of context values
BarePlace   == Placeholder(KeyB)
PaddedPlace == Placeholder(<<" ","b"," ">>)
UpperPlace  == Placeholder(<<"b","|","u","p","p","e","r">>)

ValueTexts == { Al, BarePlace, PaddedPlace, UpperPlace }

\* {{a}} alone and in text, and {% for i in xs %}{{i}}{% endfor %}
LiteralTemplates ==
    { <<>>, Placeholder(KeyA), <<"<">> \o Placeholder(KeyA) \o <<">">>, LoopOverXs }

InitLiteral ==
    /\ pc = "render"
    /\ result = <<>>
    /\ found = FALSE
    /\ template \in LiteralTemplates
    /\ \E a \in ValueTexts, xs \in SeqsUpTo({ Str(v) : v \in ValueTexts }, MaxItems),
          b \in {Absent, Str(Bo)} :
            context = Obj(Bind(KeyA, Str(a)) @@ Bind(KeyXs, Arr(xs)) @@ Bind(KeyB, b))

SpecLiteral == InitLiteral /\ [][Next]_vars

\* C16: the text of a context value is emitted as it is: {{a}} gives the
\* string a and {% for i in xs %}{{i}}{% endfor %} gives the strings of xs
\* one after the other, also when they hold {{b}} or {{b|upper}} and b is
\* bound
C16_ValuesLiteral ==
    pc = "done" =>
        /\ template = Placeholder(KeyA) => result = context.o[KeyA].s
        /\ template = <<"<">> \o Placeholder(KeyA) \o <<">">> =>
              result = <<"<">> \o context.o[KeyA].s \o <<">">>
        /\ template = LoopOverXs =>
              result = Concat([k \in DOMAIN context.o[KeyXs].a |->
                                  context.o[KeyXs].a[k].s])

=============================================================================
